---- MODULE Spec2Model ----
(***************************************************************************)
(* fastd-exporter: a Prometheus exporter for the fastd VPN daemon.         *)
(*                                                                         *)
(* The module models src/fastd-exporter.go (lines 1-352, the exporter):    *)
(*   - Collect, the per-scrape collection cycle of one exporter            *)
(*     (readFromStatusSocket, the mapping of a Message to samples, the     *)
(*     per-peer loop with net.SplitHostPort, net.ParseIP, ipisp.LookupIP); *)
(*   - parseConfig and main, the startup of the process.                   *)
(*                                                                         *)
(* Strings the code inspects (addresses, configuration files) are          *)
(* sequences of one-character strings; strings it only copies are TLA+     *)
(* strings.  A float64 sample value is an integer number of thousandths    *)
(* (fixed point), so that x/1000 of a whole x is exact.                    *)
(***************************************************************************)
EXTENDS Integers, Sequences, FiniteSets, TLC

VARIABLES
    args,        \* flag.Args(): the instance names of the command line
    pc,          \* where main is: "start", "loop", "listen", "serving", "fatal"
    idx,         \* main's loop variable i (0-based)
    parsed,      \* outcome of parseConfig for instances[0..idx-1]
    lastParse,   \* the latest parseConfig call: its inputs and its result
    goroutines,  \* exporters whose `go prometheus.MustRegister(..)` has not run yet
    registry,    \* exporters registered with the default registry
    crashed,     \* the process died of an unrecovered panic
    cycle,       \* the latest collection cycle: its inputs and what it sent
    memo,        \* an earlier collection cycle, kept for comparison
    scrape,      \* the scrape being served: its collectors and their cycles
    earlier,     \* an earlier scrape, kept for comparison
    fetch        \* readFromStatusSocket of the running cycle, step by step

vars == <<args, pc, idx, parsed, lastParse, goroutines, registry, crashed, cycle, memo,
          scrape, earlier, fetch>>

(***************************************************************************)
(* Bounds of the model.                                                    *)
(***************************************************************************)
MaxUptime == 2      \* uptime / established, in milliseconds: 0..MaxUptime
MaxCount == 1       \* a packet or byte counter: 0..MaxCount
MaxPeers == 2       \* peers of a snapshot with several peers
MaxAsn == 2         \* AS numbers the lookup can answer: 1..MaxAsn
MaxProbePeers == 1  \* peers of the snapshots of the two-cycle comparison
MaxInstances == 2   \* instances on the command line
MaxAge == 2         \* cycles counted since the kept cycle: 0..MaxAge

(***************************************************************************)
(* float64 values, in thousandths.                                         *)
(***************************************************************************)
Thousand == 1000

\* float64(n) of an int n
Float(n) == n * Thousand

(***************************************************************************)
(* Strings as sequences of characters.                                     *)
(***************************************************************************)
Contains(s, c) == \E i \in 1..Len(s) : s[i] = c

\* 1-based index of the first c in s, 0 if there is none
IndexByte(s, c) ==
    IF Contains(s, c)
    THEN CHOOSE i \in 1..Len(s) : s[i] = c /\ \A j \in 1..(i - 1) : s[j] # c
    ELSE 0

\* 1-based index of the last c in s, 0 if there is none
LastIndexByte(s, c) ==
    IF Contains(s, c)
    THEN CHOOSE i \in 1..Len(s) : s[i] = c /\ \A j \in (i + 1)..Len(s) : s[j] # c
    ELSE 0

RECURSIVE SplitOn(_, _)
\* the fields of s between the separators c
SplitOn(s, c) ==
    LET i == IndexByte(s, c)
    IN  IF i = 0 THEN <<s>>
        ELSE <<SubSeq(s, 1, i - 1)>> \o SplitOn(SubSeq(s, i + 1, Len(s)), c)

(***************************************************************************)
(* net.SplitHostPort, as Collect uses it: host is "" whenever err # nil.   *)
(***************************************************************************)
SplitHostPort(hostport) ==
    LET n    == Len(hostport)
        i    == LastIndexByte(hostport, ":")
        fail == [host |-> <<>>, port |-> <<>>, err |-> TRUE]
    IN  IF i = 0 THEN fail                                   \* missing port
        ELSE IF hostport[1] = "["
        THEN LET end == IndexByte(hostport, "]")
             IN  IF end = 0 THEN fail                        \* missing ']'
                 ELSE IF end = n THEN fail                   \* missing port
                 ELSE IF end + 1 # i THEN fail               \* too many colons / missing port
                 ELSE IF Contains(SubSeq(hostport, 2, n), "[") THEN fail
                 ELSE IF Contains(SubSeq(hostport, end + 1, n), "]") THEN fail
                 ELSE [host |-> SubSeq(hostport, 2, end - 1),
                       port |-> SubSeq(hostport, i + 1, n), err |-> FALSE]
        ELSE LET host == SubSeq(hostport, 1, i - 1)
             IN  IF Contains(host, ":") THEN fail            \* too many colons
                 ELSE IF Contains(hostport, "[") THEN fail
                 ELSE IF Contains(hostport, "]") THEN fail
                 ELSE [host |-> host, port |-> SubSeq(hostport, i + 1, n), err |-> FALSE]

(***************************************************************************)
(* net.ParseIP: whether the string is an IP address literal (the result    *)
(* is nil otherwise).                                                      *)
(***************************************************************************)
DecDigits == <<"0", "1", "2", "3", "4", "5", "6", "7", "8", "9">>
HexLetters == {"a", "b", "c", "d", "e", "f", "A", "B", "C", "D", "E", "F"}

IsDec(c) == \E i \in 1..Len(DecDigits) : DecDigits[i] = c
IsHex(c) == IsDec(c) \/ c \in HexLetters
DigitVal(c) == (CHOOSE i \in 1..Len(DecDigits) : DecDigits[i] = c) - 1

RECURSIVE DecVal(_)
DecVal(f) == IF f = <<>> THEN 0 ELSE DecVal(SubSeq(f, 1, Len(f) - 1)) * 10 + DigitVal(f[Len(f)])

IsOctet(f) ==
    /\ Len(f) \in 1..3
    /\ \A i \in 1..Len(f) : IsDec(f[i])
    /\ (Len(f) > 1 => f[1] # "0")
    /\ DecVal(f) <= 255

IsIPv4(s) ==
    LET f == SplitOn(s, ".")
    IN  Len(f) = 4 /\ \A i \in 1..4 : IsOctet(f[i])

IsHexGroup(f) == Len(f) \in 1..4 /\ \A i \in 1..Len(f) : IsHex(f[i])

IsIPv6(s) ==
    LET f      == SplitOn(s, ":")
        n      == Len(f)
        empty  == {i \in 1..n : f[i] = <<>>}
        groups == {i \in 1..n : f[i] # <<>>}
        \* an embedded IPv4 address may be the last group and fills two groups
        v4tail == n \in groups /\ IsIPv4(f[n])
        count  == Cardinality(groups) + (IF v4tail THEN 1 ELSE 0)
        ellipsis ==
            \/ \E i \in 2..(n - 1) : empty = {i}
            \/ n >= 3 /\ empty = {1, 2}
            \/ n >= 3 /\ empty = {n - 1, n}
            \/ n = 3 /\ empty = {1, 2, 3}
    IN  /\ n >= 3
        /\ \A i \in groups : IsHexGroup(f[i]) \/ (i = n /\ v4tail)
        /\ \/ empty = {} /\ count = 8
           \/ ellipsis /\ count <= 7

ParseIP(s) == IsIPv4(s) \/ IsIPv6(s)

(***************************************************************************)
(* The status socket's JSON document (Message, Statistics, Peer).          *)
(* Peer.MAC is decoded and never read; it is left out.                     *)
(***************************************************************************)
PacketStatistics(count, bytes) == [Count |-> count, Bytes |-> bytes]

\* the counters of a Statistics block, by Go field path
CounterFields == {<<"Rx", "Count">>, <<"Rx", "Bytes">>,
                  <<"RxReordered", "Count">>, <<"RxReordered", "Bytes">>,
                  <<"Tx", "Count">>, <<"Tx", "Bytes">>,
                  <<"TxDropped", "Count">>, <<"TxDropped", "Bytes">>,
                  <<"TxError", "Count">>, <<"TxError", "Bytes">>}

\* a Statistics block whose counter f is v and whose other counters are 0
StatisticsWith(f, v) ==
    LET ps(g) == PacketStatistics(IF f = <<g, "Count">> THEN v ELSE 0,
                                  IF f = <<g, "Bytes">> THEN v ELSE 0)
    IN  [Rx |-> ps("Rx"), RxReordered |-> ps("RxReordered"), Tx |-> ps("Tx"),
         TxDropped |-> ps("TxDropped"), TxError |-> ps("TxError")]

\* Statistics{}
ZeroStatistics == StatisticsWith(<<"none", "none">>, 0)

\* the Statistics blocks of the model: at most one counter is not 0
StatisticsSet == {ZeroStatistics} \cup
                 {StatisticsWith(f, v) : f \in CounterFields, v \in 1..MaxCount}

\* Peer.Connection == nil
NilConnection == [isNil |-> TRUE]

Connection(established, method, statistics) ==
    [isNil |-> FALSE, Established |-> established, Method |-> method,
     Statistics |-> statistics]

Peer(name, address, interface, connection) ==
    [Name |-> name, Address |-> address, Interface |-> interface,
     Connection |-> connection]

\* a nil map[string]Peer
NoPeers == [k \in {} |-> NilConnection]

\* Message{}
EmptyMessage == [Uptime |-> 0, Interface |-> "", Statistics |-> ZeroStatistics,
                 Peers |-> NoPeers]

(***************************************************************************)
(* The snapshots of the model.                                             *)
(***************************************************************************)
AllKeys == <<"key1", "key2", "key3", "key4">>
PeerKeys == {AllKeys[i] : i \in 1..MaxPeers}
ProbeKeys == {AllKeys[i] : i \in 1..MaxProbePeers}

Interfaces == {"", "ffda0"}
PeerInterfaces == {"", "peer0"}

AddrV4Port == <<"1", ".", "2", ".", "3", ".", "4", ":", "9">>       \* 1.2.3.4:9
AddrV4     == <<"1", ".", "2", ".", "3", ".", "4">>                 \* 1.2.3.4
AddrV6Port == <<"[", "2", "0", "0", "1", ":", ":", "1", "]", ":", "9">>  \* [2001::1]:9
AddrV6     == <<"2", "0", "0", "1", ":", ":", "1">>                 \* 2001::1
AddrAny    == <<"a", "n", "y">>                                     \* any
AddrHost   == <<"g", "w", ".", "d", "e", ":", "9">>                 \* gw.de:9
Addresses  == {AddrV4Port, AddrV4, AddrV6Port, AddrV6, AddrAny, AddrHost}

Connections == {NilConnection} \cup
               {Connection(e, "null", s) : e \in 0..MaxUptime, s \in StatisticsSet}

\* snapshots without peers: the aggregate part varies
AggregateMessages ==
    {[Uptime |-> u, Interface |-> i, Statistics |-> s, Peers |-> NoPeers] :
        u \in 0..MaxUptime, i \in Interfaces, s \in StatisticsSet}

\* snapshots with one peer: the peer varies
SinglePeerMessages ==
    {[Uptime |-> MaxUptime, Interface |-> i, Statistics |-> ZeroStatistics,
      Peers |-> [k \in {AllKeys[1]} |-> Peer("gw01", a, pi, c)]] :
        i \in Interfaces, a \in Addresses, pi \in PeerInterfaces, c \in Connections}

\* the peers of a snapshot with several peers: connected or not
PlainPeers == {Peer("gw", a, "", c) :
                  a \in {AddrV4Port},
                  c \in {NilConnection, Connection(MaxUptime, "null", ZeroStatistics)}}

PeerMaps(keys) == UNION {[K -> PlainPeers] : K \in SUBSET keys}

MultiPeerMessages ==
    {[Uptime |-> MaxUptime, Interface |-> "ffda0", Statistics |-> ZeroStatistics,
      Peers |-> ps] : ps \in PeerMaps(PeerKeys)}

Messages == AggregateMessages \cup SinglePeerMessages \cup MultiPeerMessages

\* the snapshots of the two-cycle comparison
ProbeMessages ==
    {[Uptime |-> u, Interface |-> "ffda0", Statistics |-> ZeroStatistics,
      Peers |-> ps] : u \in {MaxUptime}, ps \in PeerMaps(ProbeKeys)}

\* what the status socket does when Collect connects to it
SocketBehaviours(msgs) ==
    {[dial |-> FALSE, json |-> FALSE, msg |-> EmptyMessage],
     [dial |-> TRUE, json |-> FALSE, msg |-> EmptyMessage]} \cup
    {[dial |-> TRUE, json |-> TRUE, msg |-> m] : m \in msgs}

(***************************************************************************)
(* readFromStatusSocket                                                    *)
(***************************************************************************)
readFromStatusSocket(sock) ==
    IF ~sock.dial THEN [msg |-> EmptyMessage, err |-> "dial"]
    ELSE IF ~sock.json THEN [msg |-> EmptyMessage, err |-> "decode"]
    ELSE [msg |-> sock.msg, err |-> "nil"]

(***************************************************************************)
(* ipisp.LookupIP(ctx, ip) returns a pointer to a Response and an error;   *)
(* the pointer is nil when err # nil.  A nil ip (net.ParseIP failed)       *)
(* cannot be looked up.                                                    *)
(***************************************************************************)
NilResponse == [err |-> TRUE]
ServiceAnswers == {NilResponse} \cup {[err |-> FALSE, ASN |-> a] : a \in 1..MaxAsn}

LookupIP(ipOk, answer) == IF ipOk THEN answer ELSE NilResponse

(***************************************************************************)
(* NewPrometheusExporter: the exporter of an instance.  Its descriptors    *)
(* are fixed names with the constant label fastd_instance; the per-peer    *)
(* descriptors take the labels public_key, name, interface, method.        *)
(***************************************************************************)
NewPrometheusExporter(instance, sockName) ==
    [instance |-> instance, statusSocketPath |-> sockName]

\* prometheus.MustNewConstMetric(desc, _, value, labelValues...)
MustNewConstMetric(exporter, name, value, labels) ==
    [name |-> name, instance |-> exporter.instance, labels |-> labels, value |-> value]

(***************************************************************************)
(* Collect, lines 196-214: up, uptime and the aggregate counters.  data    *)
(* is Message{} when the fetch failed.                                     *)
(***************************************************************************)
UpValue(err) == IF err # "nil" THEN Float(0) ELSE Float(1)

\* data.Uptime sent as it is, in milliseconds
UptimeUnscaled(uptime) == Float(uptime)

\* data.Uptime/1000
UptimeValue(uptime) == Float(uptime) \div Thousand

GlobalMetrics(exporter, data, err) ==
    LET m(name, value) == MustNewConstMetric(exporter, name, value, <<>>)
    IN  << m("fastd_up", UpValue(err)),
           m("fastd_uptime_seconds", UptimeValue(data.Uptime)),
           m("fastd_rx_packets", Float(data.Statistics.Rx.Count)),
           m("fastd_rx_bytes", Float(data.Statistics.Rx.Bytes)),
           m("fastd_rx_reordered_packets", Float(data.Statistics.RxReordered.Count)),
           m("fastd_rx_reordered_bytes", Float(data.Statistics.RxReordered.Bytes)),
           m("fastd_tx_packets", Float(data.Statistics.Tx.Count)),
           m("fastd_tx_bytes", Float(data.Statistics.Tx.Bytes)),
           m("fastd_tx_dropped_packets", Float(data.Statistics.Tx.Count)),
           m("fastd_tx_dropped_bytes", Float(data.Statistics.TxDropped.Bytes)) >>

(***************************************************************************)
(* Collect, lines 219-263: the body of the loop over data.Peers.           *)
(* asnlookup is dereferenced at line 250 only: with a nil asnlookup the    *)
(* body panics there, after it has sent the three samples before it.       *)
(***************************************************************************)
PeerHost(peer) == SplitHostPort(peer.Address).host

IpAddrFamily(peerIp) == IF Contains(peerIp, ".") THEN 4 ELSE 6

InterfaceName(data, peer) == IF data.Interface = "" THEN peer.Interface ELSE data.Interface

PeerLabels(data, publicKey) ==
    LET peer == data.Peers[publicKey]
    IN  <<publicKey, peer.Name, InterfaceName(data, peer),
          IF peer.Connection.isNil THEN "" ELSE peer.Connection.Method>>

PeerMetrics(exporter, data, publicKey, asnlookup) ==
    LET peer   == data.Peers[publicKey]
        labels == PeerLabels(data, publicKey)
        m(name, value) == MustNewConstMetric(exporter, name, value, labels)
        conn   == peer.Connection
        head   == << m("fastd_peer_up", Float(1)),
                     m("fastd_peer_uptime_seconds", Float(conn.Established) \div Thousand),
                     m("fastd_peer_ipaddr_family", Float(IpAddrFamily(PeerHost(peer)))) >>
    IN  IF conn.isNil
        THEN [sent |-> << m("fastd_peer_up", Float(0)) >>, panic |-> FALSE]
        ELSE IF asnlookup.err
        THEN [sent |-> head, panic |-> TRUE]
        ELSE [sent |-> head \o
                 << m("fastd_peer_asn", Float(asnlookup.ASN)),
                    m("fastd_peer_rx_packets", Float(conn.Statistics.Rx.Count)),
                    m("fastd_peer_rx_bytes", Float(conn.Statistics.Rx.Bytes)),
                    m("fastd_peer_rx_reordered_packets", Float(conn.Statistics.RxReordered.Count)),
                    m("fastd_peer_rx_reordered_bytes", Float(conn.Statistics.RxReordered.Bytes)),
                    m("fastd_peer_tx_packets", Float(conn.Statistics.Tx.Count)),
                    m("fastd_peer_tx_bytes", Float(conn.Statistics.Tx.Bytes)),
                    m("fastd_peer_tx_dropped_packets", Float(conn.Statistics.TxDropped.Count)),
                    m("fastd_peer_tx_dropped_bytes", Float(conn.Statistics.TxDropped.Bytes)),
                    m("fastd_peer_tx_error_packets", Float(conn.Statistics.TxError.Count)),
                    m("fastd_peer_tx_error_bytes", Float(conn.Statistics.TxError.Bytes)) >>,
              panic |-> FALSE]

(***************************************************************************)
(* Collect, lines 216-266: the loop, in the order the map iteration        *)
(* takes, and the peers_up_total sample after it.                          *)
(***************************************************************************)
\* the value an earlier cycle sent as peers_up_total (0 if none): what a
\* cycle would start from if peersUpTotal were kept between cycles
CarriedPeersUp ==
    LET out  == memo.kept.out
        sent == {i \in 1..Len(out) : out[i].name = "fastd_peers_up_total"}
    IN  IF sent = {} THEN 0 ELSE out[CHOOSE i \in sent : TRUE].value \div Thousand

\* peersUpTotal := 0
InitialPeersUpTotal == 0

RECURSIVE PeerLoop(_, _, _, _, _)
PeerLoop(exporter, data, lookups, order, st) ==
    IF order = <<>> \/ st.panic THEN st
    ELSE LET publicKey == Head(order)
             body == PeerMetrics(exporter, data, publicKey, lookups[publicKey])
             up   == IF data.Peers[publicKey].Connection.isNil THEN 0 ELSE 1
         IN  PeerLoop(exporter, data, lookups, Tail(order),
                      [out |-> st.out \o body.sent,
                       peersUpTotal |-> st.peersUpTotal + up,
                       panic |-> body.panic])

CollectMetrics(exporter, r, lookups, order) ==
    LET data == r.msg
        st == PeerLoop(exporter, data, lookups, order,
                       [out |-> GlobalMetrics(exporter, data, r.err),
                        peersUpTotal |-> InitialPeersUpTotal, panic |-> FALSE])
    IN  IF st.panic THEN [out |-> st.out, panic |-> TRUE]
        ELSE [out |-> Append(st.out,
                             MustNewConstMetric(exporter, "fastd_peers_up_total",
                                                Float(st.peersUpTotal), <<>>)),
              panic |-> FALSE]

\* the orders in which a range over a map with these keys can visit them
Orders(keys) ==
    {o \in [1..Cardinality(keys) -> keys] :
        \A i, j \in 1..Cardinality(keys) : o[i] = o[j] => i = j}

\* the ASN lookups of a cycle: one per peer, connected or not (line 238)
Lookups(data, answers) ==
    [k \in DOMAIN data.Peers |-> LookupIP(ParseIP(PeerHost(data.Peers[k])), answers[k])]

NoCycle == [ran |-> FALSE, instance |-> "", err |-> "nil", msg |-> EmptyMessage,
            lookups |-> NoPeers, out |-> <<>>, panicked |-> FALSE]

\* no cycle kept; age counts the cycles that ended since the kept one ran
NoMemo == [kept |-> NoCycle, age |-> 0]

\* no scrape is being served: collectors are the exporters the registry
\* gathers from, todo those whose Collect has not returned, cycles the
\* cycles of the others, by instance
NoScrape == [active |-> FALSE, collectors |-> {}, todo |-> {},
             cycles |-> [i \in {} |-> NoCycle]]

\* no scrape kept; failed holds the instances a cycle of which failed to
\* fetch in a scrape that ended since the kept one
NoEarlier == [ran |-> FALSE, cycles |-> [i \in {} |-> NoCycle], failed |-> {}]

\* readFromStatusSocket is not running: stream is what the daemon does on
\* an accepted connection, conn the connection, dials the calls of
\* net.DialTimeout in this cycle, r what readFromStatusSocket returned
NoFetch == [state |-> "Idle", exporter |-> NewPrometheusExporter("", <<>>),
            stream |-> "none", conn |-> "none", dials |-> 0,
            r |-> [msg |-> EmptyMessage, err |-> "nil"]]

(***************************************************************************)
(* One collection cycle: on a scrape the registry calls Collect of a       *)
(* registered exporter in a goroutine of its own; a panic there ends the   *)
(* process.  cycle holds the cycle until the scrape is answered.           *)
(***************************************************************************)
CollectFrom(exporter, msgs) ==
    /\ pc = "serving"
    /\ ~crashed
    /\ ~cycle.ran
    /\ exporter \in registry
    /\ \E sock \in SocketBehaviours(msgs) :
         LET r == readFromStatusSocket(sock)
         IN  \E answers \in [DOMAIN r.msg.Peers -> ServiceAnswers],
                order \in Orders(DOMAIN r.msg.Peers) :
               LET lookups == Lookups(r.msg, answers)
                   res == CollectMetrics(exporter, r, lookups, order)
               IN  /\ cycle' = [ran |-> TRUE, instance |-> exporter.instance,
                                err |-> r.err, msg |-> r.msg, lookups |-> lookups,
                                out |-> res.out, panicked |-> res.panic]
                   /\ crashed' = res.panic
    /\ UNCHANGED <<args, pc, idx, parsed, lastParse, goroutines, registry, memo, scrape, earlier, fetch>>

Collect == \E exporter \in registry : CollectFrom(exporter, Messages)

\* Collect has returned and the scrape is answered: nothing of the cycle is
\* kept by the exporter (the observer's memo counts the cycle)
Finish ==
    /\ cycle.ran
    /\ ~crashed
    /\ cycle' = NoCycle
    /\ memo' = IF memo.kept.ran /\ memo.age < MaxAge
               THEN [memo EXCEPT !.age = memo.age + 1] ELSE memo
    /\ fetch' = NoFetch
    /\ UNCHANGED <<args, pc, idx, parsed, lastParse, goroutines, registry, crashed,
                   scrape, earlier>>

(***************************************************************************)
(* The configuration file, as parseConfig's pattern sees it: a sequence    *)
(* of tokens, "status socket " (the pattern's literal words), the quote,   *)
(* the semicolon, and other text, which stands for itself.                 *)
(***************************************************************************)
Keyword == "status socket "
Quote == "\""
Semicolon == ";"

\* status socket "<path>";
Declaration(path) == <<Keyword, Quote>> \o path \o <<Quote, Semicolon>>

PathA == <<"/run/a.sock">>
PathB == <<"/run/b.sock">>
OtherText == <<"interface ", Quote, "ffda0", Quote, Semicolon>>

ConfigFiles ==
    { <<>>,                                               \* an empty file
      OtherText,                                          \* no status socket
      Declaration(PathA),
      OtherText \o Declaration(PathB),
      Declaration(PathA) \o Declaration(PathB),           \* two declarations
      Declaration(<<>>),                                  \* status socket "";
      <<Keyword, Quote>> \o PathA \o <<Quote>>,           \* no semicolon
      <<Keyword>> \o PathA \o <<Semicolon>>,              \* no quotes
      <<Keyword, Quote>> \o PathA \o <<Quote>> \o Declaration(PathB),
      <<Keyword, Quote>> \o PathA \o <<Keyword, Quote, Semicolon>>,
      Declaration(<<>>) \o Declaration(PathB) }

(***************************************************************************)
(* regexp `status socket "([^"]+)";` and FindSubmatch: the leftmost match  *)
(* and its group, <<>> when nothing matches.                               *)
(***************************************************************************)
\* the index of the closing quote of a match that starts at i, 0 if none
MatchEnd(data, i) ==
    IF i + 1 <= Len(data) /\ data[i] = Keyword /\ data[i + 1] = Quote
    THEN LET q == IndexByte(SubSeq(data, i + 2, Len(data)), Quote)
         IN  IF q >= 2 /\ i + q + 2 <= Len(data) /\ data[i + q + 2] = Semicolon
             THEN i + q + 1 ELSE 0
    ELSE 0

RECURSIVE FindFrom(_, _)
FindFrom(data, i) ==
    IF i > Len(data) THEN <<>>
    ELSE IF MatchEnd(data, i) # 0
         THEN <<SubSeq(data, i, MatchEnd(data, i) + 1),
                SubSeq(data, i + 2, MatchEnd(data, i) - 1)>>
         ELSE FindFrom(data, i + 1)

FindSubmatch(data) == FindFrom(data, 1)

(***************************************************************************)
(* parseConfig.  file.readable and file.data are what ioutil.ReadFile      *)
(* gives for the instance's configuration file, statOk whether os.Stat     *)
(* finds the extracted path.                                               *)
(***************************************************************************)
\* parseConfig without the os.Stat check
parseConfigNoStat(file, statOk) ==
    IF ~file.readable THEN [statusSocketPath |-> <<>>, err |-> "read"]
    ELSE LET match == FindSubmatch(file.data)
         IN  IF Len(match) = 0 THEN [statusSocketPath |-> <<>>, err |-> "missing"]
             ELSE [statusSocketPath |-> match[2], err |-> "nil"]

parseConfig(file, statOk) ==
    IF ~file.readable THEN [statusSocketPath |-> <<>>, err |-> "read"]
    ELSE LET match == FindSubmatch(file.data)
         IN  IF Len(match) = 0 THEN [statusSocketPath |-> <<>>, err |-> "missing"]
             ELSE IF statOk THEN [statusSocketPath |-> match[2], err |-> "nil"]
             ELSE [statusSocketPath |-> <<>>, err |-> "stat"]

\* the configuration files an instance can have
Files == {[readable |-> FALSE, data |-> <<>>]} \cup
         {[readable |-> TRUE, data |-> d] : d \in ConfigFiles}

NoParse == [called |-> FALSE, instance |-> "", file |-> [readable |-> FALSE, data |-> <<>>],
            statOk |-> FALSE, cfg |-> [statusSocketPath |-> <<>>, err |-> "nil"]]

(***************************************************************************)
(* main                                                                    *)
(***************************************************************************)
Instances == {"dom0", "dom1"}
ArgLists == UNION {[1..n -> Instances] : n \in 0..MaxInstances}

\* lines 320-325
MainStart ==
    /\ pc = "start"
    /\ pc' = IF Len(args) = 0 THEN "fatal" ELSE "loop"
    /\ UNCHANGED <<args, idx, parsed, lastParse, goroutines, registry, crashed, cycle, memo, scrape, earlier, fetch>>

\* one iteration of the loop of lines 327-334, the error of parseConfig ignored
MainLoopIgnoreErr ==
    /\ pc = "loop"
    /\ ~crashed
    /\ idx < Len(args)
    /\ \E file \in Files, statOk \in BOOLEAN :
         LET config == parseConfig(file, statOk)
         IN  /\ lastParse' = [called |-> TRUE, instance |-> args[idx + 1], file |-> file,
                              statOk |-> statOk, cfg |-> config]
             /\ parsed' = Append(parsed, config.err)
             /\ goroutines' = goroutines \cup
                    {[id |-> idx,
                      exporter |-> NewPrometheusExporter(args[idx + 1], config.statusSocketPath)]}
             /\ idx' = idx + 1
             /\ pc' = "loop"
    /\ UNCHANGED <<args, registry, crashed, cycle, memo, scrape, earlier, fetch>>

\* one iteration of the loop of lines 327-334
MainLoop ==
    /\ pc = "loop"
    /\ ~crashed
    /\ idx < Len(args)
    /\ \E file \in Files, statOk \in BOOLEAN :
         LET config == parseConfig(file, statOk)
         IN  /\ lastParse' = [called |-> TRUE, instance |-> args[idx + 1], file |-> file,
                              statOk |-> statOk, cfg |-> config]
             /\ parsed' = Append(parsed, config.err)
             /\ IF config.err # "nil"
                THEN /\ pc' = "fatal"
                     /\ UNCHANGED <<idx, goroutines>>
                ELSE /\ goroutines' = goroutines \cup
                          {[id |-> idx,
                            exporter |-> NewPrometheusExporter(args[idx + 1],
                                                               config.statusSocketPath)]}
                     /\ idx' = idx + 1
                     /\ pc' = "loop"
    /\ UNCHANGED <<args, registry, crashed, cycle, memo, scrape, earlier, fetch>>

\* lines 336-351: the handlers and http.ListenAndServe, which returns (and
\* log.Fatal ends the process) when it cannot listen
MainListen ==
    /\ pc = "loop"
    /\ ~crashed
    /\ idx = Len(args)
    /\ \E listenOk \in BOOLEAN : pc' = IF listenOk THEN "serving" ELSE "fatal"
    /\ UNCHANGED <<args, idx, parsed, lastParse, goroutines, registry, crashed, cycle, memo, scrape, earlier, fetch>>

\* a goroutine of line 333 runs prometheus.MustRegister, which panics when
\* the registry holds descriptors of the same name and fastd_instance
Register ==
    /\ pc \in {"loop", "serving"}
    /\ ~crashed
    /\ \E g \in goroutines :
         /\ goroutines' = goroutines \ {g}
         /\ IF \E e \in registry : e.instance = g.exporter.instance
            THEN crashed' = TRUE /\ UNCHANGED registry
            ELSE registry' = registry \cup {g.exporter} /\ UNCHANGED crashed
    /\ UNCHANGED <<args, pc, idx, parsed, lastParse, cycle, memo, scrape, earlier, fetch>>

(***************************************************************************)
(* Specifications.                                                         *)
(***************************************************************************)
\* the start of the process
InitMain ==
    /\ args \in ArgLists
    /\ pc = "start"
    /\ idx = 0
    /\ parsed = <<>>
    /\ lastParse = NoParse
    /\ goroutines = {}
    /\ registry = {}
    /\ crashed = FALSE
    /\ cycle = NoCycle
    /\ memo = NoMemo
    /\ scrape = NoScrape
    /\ earlier = NoEarlier
    /\ fetch = NoFetch

NextMain == MainStart \/ MainLoop \/ MainListen \/ Register

SpecMain == InitMain /\ [][NextMain]_vars

\* a process that serves one instance, dom0, whose exporter is registered
ServedFile == [readable |-> TRUE, data |-> Declaration(PathA)]

Init ==
    /\ args = <<"dom0">>
    /\ pc = "serving"
    /\ idx = 1
    /\ parsed = <<"nil">>
    /\ lastParse = [called |-> TRUE, instance |-> "dom0", file |-> ServedFile,
                    statOk |-> TRUE, cfg |-> parseConfig(ServedFile, TRUE)]
    /\ goroutines = {}
    /\ registry = {NewPrometheusExporter("dom0", parseConfig(ServedFile, TRUE).statusSocketPath)}
    /\ crashed = FALSE
    /\ cycle = NoCycle
    /\ memo = NoMemo
    /\ scrape = NoScrape
    /\ earlier = NoEarlier
    /\ fetch = NoFetch

Next == Collect \/ Finish

Spec == Init /\ [][Next]_vars

\* the same process, its cycles fetching the snapshots of the comparison,
\* and an observer that keeps a cycle to compare later ones with
CollectProbe == \E exporter \in registry : CollectFrom(exporter, ProbeMessages)

Remember ==
    /\ cycle.ran
    /\ memo # [kept |-> cycle, age |-> 0]
    /\ memo' = [kept |-> cycle, age |-> 0]
    /\ UNCHANGED <<args, pc, idx, parsed, lastParse, goroutines, registry, crashed, cycle,
                   scrape, earlier, fetch>>

NextPure == CollectProbe \/ Finish \/ Remember

SpecPure == Init /\ [][NextPure]_vars

(***************************************************************************)
(* A scrape of several instances: promhttp.Handler (line 337) gathers from *)
(* the default registry, which calls Collect of every registered exporter, *)
(* each in a goroutine of its own, and answers when all have returned.     *)
(* The exporters share no variable (Collect has a value receiver and       *)
(* works on locals), so the interleaving of their cycles is the order in   *)
(* which the Collect calls run.                                            *)
(***************************************************************************)
\* the snapshots the instances of a scrape can fetch: no peer, or one peer,
\* connected or not
ScrapeKeys == {AllKeys[1]}

ScrapeMessages ==
    {[Uptime |-> MaxUptime, Interface |-> "ffda0", Statistics |-> ZeroStatistics,
      Peers |-> ps] : ps \in PeerMaps(ScrapeKeys)}

\* a scrape arrives: the registry gathers from the exporters registered now
ScrapeStart ==
    /\ pc = "serving"
    /\ ~crashed
    /\ ~scrape.active
    /\ scrape' = [active |-> TRUE, collectors |-> registry, todo |-> registry,
                  cycles |-> [i \in {} |-> NoCycle]]
    /\ UNCHANGED <<args, pc, idx, parsed, lastParse, goroutines, registry, crashed, cycle,
                   memo, earlier, fetch>>

\* Collect of one exporter of the scrape, a failed fetch ending the process
\* (log.Fatal on the error)
CollectInFatal(exporter) ==
    /\ pc = "serving"
    /\ ~crashed
    /\ scrape.active
    /\ exporter \in scrape.todo
    /\ \E sock \in SocketBehaviours(ScrapeMessages) :
         LET r == readFromStatusSocket(sock)
         IN  \E answers \in [DOMAIN r.msg.Peers -> ServiceAnswers],
                order \in Orders(DOMAIN r.msg.Peers) :
               LET lookups == Lookups(r.msg, answers)
                   res == CollectMetrics(exporter, r, lookups, order)
                   done == [ran |-> TRUE, instance |-> exporter.instance,
                            err |-> r.err, msg |-> r.msg, lookups |-> lookups,
                            out |-> res.out, panicked |-> res.panic]
               IN  /\ scrape' = [scrape EXCEPT !.todo = @ \ {exporter},
                                               !.cycles = (exporter.instance :> done) @@ @]
                   /\ crashed' = (res.panic \/ r.err # "nil")
    /\ UNCHANGED <<args, pc, idx, parsed, lastParse, goroutines, registry, cycle,
                   memo, earlier, fetch>>

\* Collect of one exporter of the scrape
CollectIn(exporter) ==
    /\ pc = "serving"
    /\ ~crashed
    /\ scrape.active
    /\ exporter \in scrape.todo
    /\ \E sock \in SocketBehaviours(ScrapeMessages) :
         LET r == readFromStatusSocket(sock)
         IN  \E answers \in [DOMAIN r.msg.Peers -> ServiceAnswers],
                order \in Orders(DOMAIN r.msg.Peers) :
               LET lookups == Lookups(r.msg, answers)
                   res == CollectMetrics(exporter, r, lookups, order)
                   done == [ran |-> TRUE, instance |-> exporter.instance,
                            err |-> r.err, msg |-> r.msg, lookups |-> lookups,
                            out |-> res.out, panicked |-> res.panic]
               IN  /\ scrape' = [scrape EXCEPT !.todo = @ \ {exporter},
                                               !.cycles = (exporter.instance :> done) @@ @]
                   /\ crashed' = res.panic
    /\ UNCHANGED <<args, pc, idx, parsed, lastParse, goroutines, registry, cycle,
                   memo, earlier, fetch>>

CollectScrape == \E exporter \in scrape.todo : CollectIn(exporter)

\* the instances of the scrape whose fetch failed
FailedIn(cycles) == {i \in DOMAIN cycles : cycles[i].err # "nil"}

\* every Collect has returned and the scrape is answered (the observer
\* notes the instances that failed)
ScrapeEnd ==
    /\ scrape.active
    /\ scrape.todo = {}
    /\ ~crashed
    /\ scrape' = NoScrape
    /\ earlier' = IF earlier.ran
                  THEN [earlier EXCEPT !.failed = @ \cup FailedIn(scrape.cycles)]
                  ELSE earlier
    /\ UNCHANGED <<args, pc, idx, parsed, lastParse, goroutines, registry, crashed, cycle,
                   memo, fetch>>

\* the observer keeps the cycles of a scrape, all returned
RememberScrape ==
    /\ scrape.active
    /\ scrape.todo = {}
    /\ ~crashed
    /\ earlier # [ran |-> TRUE, cycles |-> scrape.cycles, failed |-> {}]
    /\ earlier' = [ran |-> TRUE, cycles |-> scrape.cycles, failed |-> {}]
    /\ UNCHANGED <<args, pc, idx, parsed, lastParse, goroutines, registry, crashed, cycle,
                   memo, scrape, fetch>>

\* a process that serves two instances, both exporters registered
ServedInstances == <<"dom0", "dom1">>

InitScrape ==
    /\ args = ServedInstances
    /\ pc = "serving"
    /\ idx = Len(ServedInstances)
    /\ parsed = [i \in 1..Len(ServedInstances) |-> "nil"]
    /\ lastParse = [called |-> TRUE, instance |-> ServedInstances[Len(ServedInstances)],
                    file |-> ServedFile, statOk |-> TRUE,
                    cfg |-> parseConfig(ServedFile, TRUE)]
    /\ goroutines = {}
    /\ registry = {NewPrometheusExporter(ServedInstances[i],
                                         parseConfig(ServedFile, TRUE).statusSocketPath) :
                      i \in 1..Len(ServedInstances)}
    /\ crashed = FALSE
    /\ cycle = NoCycle
    /\ memo = NoMemo
    /\ scrape = NoScrape
    /\ earlier = NoEarlier
    /\ fetch = NoFetch

NextScrape == ScrapeStart \/ CollectScrape \/ ScrapeEnd \/ RememberScrape

SpecScrape == InitScrape /\ [][NextScrape]_vars

(***************************************************************************)
(* The process from its start, with the scrapes it serves: nothing makes   *)
(* http.ListenAndServe (line 351) wait for the goroutines of line 333.     *)
(***************************************************************************)
NextServe == NextMain \/ ScrapeStart \/ CollectScrape \/ ScrapeEnd

SpecServe == InitMain /\ [][NextServe]_vars

(***************************************************************************)
(* One collection cycle, readFromStatusSocket step by step.                *)
(* net.DialTimeout returns within 2 seconds, with a connection or an       *)
(* error.  decoder.Decode reads from the connection, on which no deadline  *)
(* is set (there is no SetDeadline or SetReadDeadline in the file): it     *)
(* returns when the daemon has sent a document, or something that is none, *)
(* or has closed the connection, and not before.  The ASN lookups of       *)
(* line 238 are taken to return (with an answer or an error).              *)
(***************************************************************************)
\* what the daemon does on an accepted connection: it sends something or
\* closes, or it keeps the connection open and sends nothing
Streams == {"answers", "silent"}

\* line 196: Collect calls readFromStatusSocket
FetchBegin ==
    /\ pc = "serving"
    /\ ~crashed
    /\ ~cycle.ran
    /\ fetch.state = "Idle"
    /\ \E exporter \in registry :
         fetch' = [NoFetch EXCEPT !.state = "Dialing", !.exporter = exporter]
    /\ UNCHANGED <<args, pc, idx, parsed, lastParse, goroutines, registry, crashed, cycle,
                   memo, scrape, earlier>>

\* lines 270-273: net.DialTimeout
Dial ==
    /\ ~crashed
    /\ fetch.state = "Dialing"
    /\ \E connected \in BOOLEAN, stream \in Streams :
         fetch' = IF connected
                  THEN [fetch EXCEPT !.state = "Decoding", !.conn = "open",
                                     !.stream = stream, !.dials = @ + 1]
                  ELSE [fetch EXCEPT !.state = "Returned", !.dials = @ + 1,
                                     !.r = readFromStatusSocket(
                                              [dial |-> FALSE, json |-> FALSE,
                                               msg |-> EmptyMessage])]
    /\ UNCHANGED <<args, pc, idx, parsed, lastParse, goroutines, registry, crashed, cycle,
                   memo, scrape, earlier>>

\* lines 278-285, and the deferred conn.Close of lines 274-276: Decode
\* returns once the daemon has sent or closed
Decode ==
    /\ ~crashed
    /\ fetch.state = "Decoding"
    /\ fetch.stream = "answers"
    /\ \E sock \in SocketBehaviours(Messages) :
         /\ sock.dial
         /\ fetch' = [fetch EXCEPT !.state = "Returned", !.conn = "closed",
                                   !.r = readFromStatusSocket(sock)]
    /\ UNCHANGED <<args, pc, idx, parsed, lastParse, goroutines, registry, crashed, cycle,
                   memo, scrape, earlier>>

\* lines 197-267: the rest of Collect, from what readFromStatusSocket returned
CollectRest ==
    /\ ~crashed
    /\ fetch.state = "Returned"
    /\ LET r == fetch.r
       IN  \E answers \in [DOMAIN r.msg.Peers -> ServiceAnswers],
              order \in Orders(DOMAIN r.msg.Peers) :
             LET lookups == Lookups(r.msg, answers)
                 res == CollectMetrics(fetch.exporter, r, lookups, order)
             IN  /\ cycle' = [ran |-> TRUE, instance |-> fetch.exporter.instance,
                              err |-> r.err, msg |-> r.msg, lookups |-> lookups,
                              out |-> res.out, panicked |-> res.panic]
                 /\ crashed' = res.panic
    /\ fetch' = [fetch EXCEPT !.state = "Done"]
    /\ UNCHANGED <<args, pc, idx, parsed, lastParse, goroutines, registry,
                   memo, scrape, earlier>>

\* the steps of readFromStatusSocket once it is called
FetchStep == Dial \/ Decode

NextFetch == FetchBegin \/ Dial \/ Decode \/ CollectRest \/ Finish

SpecFetch == Init /\ [][NextFetch]_vars

(***************************************************************************)
(* What a cycle sent, for the properties below.                            *)
(***************************************************************************)
Named(out, name) == {i \in 1..Len(out) : out[i].name = name}

OfPeer(out, publicKey) ==
    {i \in 1..Len(out) : Len(out[i].labels) = 4 /\ out[i].labels[1] = publicKey}

\* exactly one sample of that name was sent, without peer labels, with that value
SentOnce(out, name, value) ==
    /\ Cardinality(Named(out, name)) = 1
    /\ \A i \in Named(out, name) : out[i].value = value /\ out[i].labels = <<>>

\* exactly one sample of that name was sent for the peer, with that value
PeerSentOnce(out, publicKey, name, value) ==
    /\ Cardinality(Named(out, name) \cap OfPeer(out, publicKey)) = 1
    /\ \A i \in Named(out, name) \cap OfPeer(out, publicKey) : out[i].value = value

ConnectedPeers(data) == {k \in DOMAIN data.Peers : ~data.Peers[k].Connection.isNil}

Fetched == cycle.ran /\ cycle.err = "nil"
FetchFailed == cycle.ran /\ cycle.err # "nil"

\* the two cycles sent the same samples, each as often
SameSamples(a, b) ==
    \A s \in {a[i] : i \in 1..Len(a)} \cup {b[i] : i \in 1..Len(b)} :
        Cardinality({i \in 1..Len(a) : a[i] = s}) = Cardinality({i \in 1..Len(b) : b[i] = s})

(***************************************************************************)
(* C1: a cycle whose fetch failed sends exactly one sample, up = 0, and    *)
(* nothing else.                                                           *)
(***************************************************************************)
C1_FailedFetchSendsOnlyUp ==
    FetchFailed =>
        /\ Len(cycle.out) = 1
        /\ SentOnce(cycle.out, "fastd_up", Float(0))

(***************************************************************************)
(* C2: every cycle sends exactly one up sample, 1 iff the fetch            *)
(* succeeded; a cycle that fetched S sends exactly one uptime_seconds      *)
(* sample, S.uptime / 1000.                                                *)
(***************************************************************************)
C2_UpAndUptime ==
    cycle.ran =>
        /\ SentOnce(cycle.out, "fastd_up", IF cycle.err = "nil" THEN Float(1) ELSE Float(0))
        /\ Fetched =>
              /\ Cardinality(Named(cycle.out, "fastd_uptime_seconds")) = 1
              /\ \A i \in Named(cycle.out, "fastd_uptime_seconds") :
                    cycle.out[i].value * Thousand = Float(cycle.msg.Uptime)

C2_Witness ==
    /\ Fetched
    /\ cycle.msg.Uptime = MaxUptime
    /\ SentOnce(cycle.out, "fastd_uptime_seconds", MaxUptime)

(***************************************************************************)
(* C3: a cycle that fetched S sends each of the ten aggregate counters     *)
(* exactly once, with the value of its own field of S.statistics.          *)
(***************************************************************************)
C3_AggregateCountersVerbatim ==
    Fetched =>
        LET st == cycle.msg.Statistics
        IN  /\ SentOnce(cycle.out, "fastd_rx_packets", Float(st.Rx.Count))
            /\ SentOnce(cycle.out, "fastd_rx_bytes", Float(st.Rx.Bytes))
            /\ SentOnce(cycle.out, "fastd_rx_reordered_packets", Float(st.RxReordered.Count))
            /\ SentOnce(cycle.out, "fastd_rx_reordered_bytes", Float(st.RxReordered.Bytes))
            /\ SentOnce(cycle.out, "fastd_tx_packets", Float(st.Tx.Count))
            /\ SentOnce(cycle.out, "fastd_tx_bytes", Float(st.Tx.Bytes))
            /\ SentOnce(cycle.out, "fastd_tx_dropped_packets", Float(st.TxDropped.Count))
            /\ SentOnce(cycle.out, "fastd_tx_dropped_bytes", Float(st.TxDropped.Bytes))
            /\ SentOnce(cycle.out, "fastd_tx_error_packets", Float(st.TxError.Count))
            /\ SentOnce(cycle.out, "fastd_tx_error_bytes", Float(st.TxError.Bytes))

(***************************************************************************)
(* C4: a cycle that fetched S sends exactly one peers_up_total sample,     *)
(* the number of peers of S whose connection is not null.                  *)
(***************************************************************************)
C4_PeersUpTotalCountsConnected ==
    Fetched =>
        SentOnce(cycle.out, "fastd_peers_up_total",
                 Float(Cardinality(ConnectedPeers(cycle.msg))))

(***************************************************************************)
(* C5: for a peer without connection the cycle sends only peer_up = 0,     *)
(* with an empty method label; for a connected peer it sends exactly the   *)
(* full per-peer set, the counters with the values of the connection.      *)
(***************************************************************************)
C5_PeerSampleSet ==
    Fetched =>
        \A k \in DOMAIN cycle.msg.Peers :
            LET conn == cycle.msg.Peers[k].Connection
                once(name, value) == PeerSentOnce(cycle.out, k, name, value)
                present(name) == Cardinality(Named(cycle.out, name) \cap OfPeer(cycle.out, k)) = 1
            IN  IF conn.isNil
                THEN /\ Cardinality(OfPeer(cycle.out, k)) = 1
                     /\ once("fastd_peer_up", Float(0))
                     /\ \A i \in OfPeer(cycle.out, k) : cycle.out[i].labels[4] = ""
                ELSE /\ Cardinality(OfPeer(cycle.out, k)) = 14
                     /\ once("fastd_peer_up", Float(1))
                     /\ \A i \in Named(cycle.out, "fastd_peer_uptime_seconds") \cap OfPeer(cycle.out, k) :
                           cycle.out[i].value * Thousand = Float(conn.Established)
                     /\ present("fastd_peer_uptime_seconds")
                     /\ present("fastd_peer_ipaddr_family")
                     /\ present("fastd_peer_asn")
                     /\ once("fastd_peer_rx_packets", Float(conn.Statistics.Rx.Count))
                     /\ once("fastd_peer_rx_bytes", Float(conn.Statistics.Rx.Bytes))
                     /\ once("fastd_peer_rx_reordered_packets", Float(conn.Statistics.RxReordered.Count))
                     /\ once("fastd_peer_rx_reordered_bytes", Float(conn.Statistics.RxReordered.Bytes))
                     /\ once("fastd_peer_tx_packets", Float(conn.Statistics.Tx.Count))
                     /\ once("fastd_peer_tx_bytes", Float(conn.Statistics.Tx.Bytes))
                     /\ once("fastd_peer_tx_dropped_packets", Float(conn.Statistics.TxDropped.Count))
                     /\ once("fastd_peer_tx_dropped_bytes", Float(conn.Statistics.TxDropped.Bytes))
                     /\ once("fastd_peer_tx_error_packets", Float(conn.Statistics.TxError.Count))
                     /\ once("fastd_peer_tx_error_bytes", Float(conn.Statistics.TxError.Bytes))

(***************************************************************************)
(* C6: the peer_ipaddr_family sample of a connected peer is 4 when the     *)
(* peer's address contains a dot and 6 otherwise.                          *)
(***************************************************************************)
C6_FamilyByDot ==
    Fetched =>
        \A k \in ConnectedPeers(cycle.msg) :
            \A i \in Named(cycle.out, "fastd_peer_ipaddr_family") \cap OfPeer(cycle.out, k) :
                cycle.out[i].value =
                    IF Contains(cycle.msg.Peers[k].Address, ".") THEN Float(4) ELSE Float(6)

(***************************************************************************)
(* C7: a failed ASN lookup does not end the process; the connected peer's  *)
(* peer_asn sample is sent with value 0 and the cycle sends its            *)
(* peers_up_total sample.                                                  *)
(***************************************************************************)
C7_LookupFailureIsHarmless ==
    Fetched =>
        \A k \in DOMAIN cycle.msg.Peers :
            cycle.lookups[k].err =>
                /\ ~cycle.panicked
                /\ ~crashed
                /\ Cardinality(Named(cycle.out, "fastd_peers_up_total")) = 1
                /\ k \in ConnectedPeers(cycle.msg) =>
                       PeerSentOnce(cycle.out, k, "fastd_peer_asn", Float(0))

(***************************************************************************)
(* C8: parseConfig returns a path only when the file is readable, has a    *)
(* declaration  status socket "<path>";  and the path exists; otherwise    *)
(* it returns an error, decided in that order, and no path.  The path is   *)
(* that of the first declaration.                                          *)
(***************************************************************************)
\* a declaration with a path of k >= 1 tokens starts at i
IsDeclarationAt(data, i, k) ==
    /\ k >= 1
    /\ i + k + 3 <= Len(data)
    /\ data[i] = Keyword
    /\ data[i + 1] = Quote
    /\ \A j \in 1..k : data[i + 1 + j] # Quote
    /\ data[i + k + 2] = Quote
    /\ data[i + k + 3] = Semicolon

DeclarationsOf(data) ==
    {d \in (1..Len(data)) \X (1..Len(data)) : IsDeclarationAt(data, d[1], d[2])}

C8_ParseConfigChecks ==
    lastParse.called =>
        LET file  == lastParse.file
            cfg   == lastParse.cfg
            decls == DeclarationsOf(file.data)
        IN  /\ cfg.err = "nil" <=> (file.readable /\ decls # {} /\ lastParse.statOk)
            /\ cfg.err # "nil" => cfg.statusSocketPath = <<>>
            /\ ~file.readable => cfg.err = "read"
            /\ file.readable /\ decls = {} => cfg.err = "missing"
            /\ file.readable /\ decls # {} /\ ~lastParse.statOk => cfg.err = "stat"
            /\ cfg.err = "nil" =>
                  \E d \in decls :
                      /\ \A e \in decls : d[1] <= e[1]
                      /\ cfg.statusSocketPath = SubSeq(file.data, d[1] + 2, d[1] + 1 + d[2])

C8_Witness ==
    /\ lastParse.called
    /\ lastParse.file.data = Declaration(PathA) \o Declaration(PathB)
    /\ lastParse.cfg = [statusSocketPath |-> PathA, err |-> "nil"]

(***************************************************************************)
(* C9: with no instance, or once parseConfig has failed for an instance,   *)
(* main has ended fatally and the HTTP server is not started; the server   *)
(* is started only after parseConfig succeeded for every instance.         *)
(***************************************************************************)
C9_FatalBeforeServing ==
    /\ pc = "serving" =>
          /\ Len(args) > 0
          /\ Len(parsed) = Len(args)
          /\ \A k \in 1..Len(parsed) : parsed[k] = "nil"
    /\ Len(args) = 0 => pc \in {"start", "fatal"}
    /\ (\E k \in 1..Len(parsed) : parsed[k] # "nil") => pc = "fatal"

C9_Witness ==
    /\ pc = "fatal"
    /\ Len(parsed) = 2
    /\ parsed[1] = "nil"
    /\ parsed[2] # "nil"

SameInputs(i) ==
    /\ i \in DOMAIN earlier.cycles
    /\ scrape.cycles[i].err = earlier.cycles[i].err
    /\ scrape.cycles[i].msg = earlier.cycles[i].msg
    /\ scrape.cycles[i].lookups = earlier.cycles[i].lookups

\* C11: in a scrape of several instances a cycle whose fetch failed
\* (transport or decode error) does not panic, and the process dies only of
\* a cycle that fetched; the samples of an instance are those of an earlier
\* cycle of that instance with the same inputs, whichever other instances
\* failed in either scrape and whichever cycles of the instance itself
\* failed in between.
C11_FetchFailureIsIsolated ==
    /\ \A i \in FailedIn(scrape.cycles) : ~scrape.cycles[i].panicked
    /\ crashed => \E i \in DOMAIN scrape.cycles :
                     scrape.cycles[i].err = "nil" /\ scrape.cycles[i].panicked
    /\ \A j \in DOMAIN scrape.cycles :
         (earlier.ran /\ SameInputs(j))
             => SameSamples(scrape.cycles[j].out, earlier.cycles[j].out)

\* a scrape, all cycles returned, in which dom0 failed to fetch and dom1
\* fetched a snapshot with a connected peer, the one it fetched in the kept
\* scrape, where dom0 fetched too; a cycle of dom1 failed in between
C11_Witness ==
    /\ scrape.active
    /\ scrape.todo = {}
    /\ ~crashed
    /\ earlier.ran
    /\ DOMAIN scrape.cycles = {"dom0", "dom1"}
    /\ scrape.cycles["dom0"].err # "nil"
    /\ earlier.cycles["dom0"].err = "nil"
    /\ scrape.cycles["dom1"].err = "nil"
    /\ \E k \in DOMAIN scrape.cycles["dom1"].msg.Peers :
         ~scrape.cycles["dom1"].msg.Peers[k].Connection.isNil
    /\ SameInputs("dom1")
    /\ "dom1" \in earlier.failed
    /\ Len(scrape.cycles["dom1"].out) > Len(scrape.cycles["dom0"].out)

(***************************************************************************)
(* C12                                                                     *)
(***************************************************************************)
\* the state of the cycle: Idle, Fetching, Mapped or FetchFailed
CycleState ==
    IF fetch.state \in {"Dialing", "Decoding", "Returned"} THEN "Fetching"
    ELSE IF Fetched THEN "Mapped"
    ELSE IF FetchFailed THEN "FetchFailed"
    ELSE "Idle"

\* a cycle that ran made one connection attempt, and the connection is
\* closed once readFromStatusSocket has returned
OneDialAndClosed ==
    /\ fetch.state \in {"Returned", "Done"} => fetch.dials = 1 /\ fetch.conn # "open"
    /\ cycle.ran => fetch.state = "Done"

\* C12: a cycle that has begun makes one connection attempt and is never
\* stuck: while readFromStatusSocket runs its next step can be taken, also
\* when the daemon has accepted the connection and sends nothing, and once
\* it has returned Collect goes on; the connection is closed once the fetch
\* has returned.
C12_CycleNeverHangs ==
    /\ OneDialAndClosed
    /\ fetch.state \in {"Dialing", "Decoding"} => ENABLED FetchStep
    /\ fetch.state = "Returned" => ~crashed

\* the cycle that hangs: the daemon holds the connection open and is silent
HungOnSilentDaemon ==
    /\ CycleState = "Fetching"
    /\ fetch.stream = "silent"
    /\ fetch.conn = "open"
    /\ ~ENABLED FetchStep

(***************************************************************************)
(* C13                                                                     *)
(***************************************************************************)
\* C13: every scrape gathers from the collector of every instance of the
\* command line: when a scrape is served, the exporter of each instance has
\* been registered.
C13_ScrapeCoversEveryInstance ==
    scrape.active =>
        \A i \in 1..Len(args) : \E e \in scrape.collectors : e.instance = args[i]
====
